---- MODULE Spec2Model ----
(***************************************************************************)
(* The dispatch / registry / aggregation core of the distributed image     *)
(* factory: the Coordinator (pkg/actors/coordinator.go), the Worker actor  *)
(* and the API server's two subscription loops and upload handler.         *)
(*                                                                         *)
(* The grid mailbox substrate and etcd are libraries; their calls are      *)
(* modelled at the call sites:                                             *)
(*   - NewMailbox(name) fails with ErrAlreadyRegistered when the name has  *)
(*     a live owner, and may fail for other reasons (fatal);               *)
(*   - RequestC(ctx, name, msg) puts msg in the named mailbox and returns  *)
(*     when the receiver Acks/Responds or ctx ends; it returns an error at *)
(*     once when no such mailbox is open or the mailbox is full;           *)
(*   - BroadcastC(ctx, grp.Fastest(), msg) issues one request per member   *)
(*     and returns on the first response, when every request has failed,   *)
(*     or when ctx times out;                                              *)
(*   - etcd Put / Delete / Get(prefix) act on a set of keys.               *)
(***************************************************************************)
EXTENDS Integers, Sequences, FiniteSets, TLC

\* ---------------------------------------------------------------- bounds
MaxUploads == 1
\* Messages a foreign client of the namespace sends to a worker's mailbox or to
\* "transform-updates", and lifecycle events it sends to "system-events".
MaxForeign == 2
MaxEvents == 17
\* The largest n of a scale request, and the most the clock advances between
\* two readings.
MaxN == 3
MaxTick == 1

\* ------------------------------------------------------ program constants
UploadsCap == 100
WorkerCap == 100
UpdatesCap == 200
EventsCap == 100
\* ch := make(chan []byte, 16)
SubCap == 16

Ops == <<"thumbnail", "grayscale", "blur", "rotate90">>
OpSet == {Ops[i] : i \in 1..Len(Ops)}

\* Worker actor instances: both are started from the "worker-gray" definition.
Workers == {"w1", "w2"}
SupportedOp(w) == "grayscale"
\* The actor name an ActorStart request may carry for each instance.
ActorNames(w) == IF w = "w1" THEN {"a"} ELSE {"a", "b"}

Images == 1..MaxUploads

\* The /events connections.
Subscribers == {"s1", "s2"}
\* The callers of broadcastSnapshot: the two loops of the Aggregator and an
\* upload handler.
Broadcasters == {"updates", "events", "upload"}
NoHolder == "-"
NoChan == "-"

NoMsg == [kind |-> "none"]
NoName == "-"
NoImage == 0
NoLoc == <<>>
\* A message that is no *structpb.Struct.
Untyped == [kind |-> "untyped", from |-> "foreign"]

VARIABLES
    reg,        \* etcd: the set of worker keys <<op, mailbox name>>
    wpc,        \* position of each Worker.Act
    wname,      \* the actor name of each worker instance
    wq,         \* content of the mailbox each worker owns
    wtask,      \* the Task a worker is handling
    wok,        \* the worker's local `success`
    stops,      \* history: worker_stop requests issued per worker
    dels,       \* history: etcd Delete calls issued per worker
    handled,    \* history: matching Tasks taken per worker
    posts,      \* history: outcome requests issued per worker
    cpc, cimg, cop, cpending, cwait, cgot,   \* Coordinator.Act
    up, upQ,    \* upload handlers and the "uploads" mailbox
    acked,      \* history: images whose intake request the Coordinator acked
    upc, ucur, updQ,   \* subscribeUpdates and "transform-updates"
    spc, scur, sysQ,   \* subscribeSystemEvents and "system-events"
    variants, totalUploads, totalVariants, failedVariants,
    activeWorkers, startedWorkers, activeWorkersPerOp, successPerOp, failedPerOp,
    outcomesRecv,   \* history: outcome messages taken from the mailbox, per op
    found,      \* history: (image, op) whose discovery returned members
    skipped,    \* history: (image, op) whose discovery returned nothing
    staleDisp,  \* history: (image, op) discovered on stale keys only
    bend,       \* history: how the broadcast of each (image, op) ended
    wcancel,    \* each worker's ctx has been cancelled
    sub,        \* each /events connection: "off" or "on" (its channel is in eventSubs)
    sbuf,       \* number of snapshots buffered in each subscriber's channel
    sdrop,      \* history: an offer to this subscriber found the channel full
    nforeign,   \* history: foreign Tasks and outcomes delivered
    nevents,    \* history: foreign lifecycle events delivered
    scpc,       \* position of handleScale
    body,       \* the decoded request body of the scale request
    peer,       \* whether NewClient and WaitUntilServing succeed for the request
    sci,        \* the loop index i of handleScale
    started,    \* handleScale's `started`
    issued,     \* history: the names of the ActorStart requests issued
    sconf,      \* history: ActorStart requests the peer confirmed
    nowNs,      \* the last reading of time.Now().UnixNano()
    sback,      \* history: a reading of the clock was below the one before it
    resp,       \* the response of handleScale
    emu,        \* the holder of s.eventsMu
    bpc,        \* position of each call of broadcastSnapshot
    bch,        \* the channel the range of broadcastSnapshot produced
    bseen,      \* the channels the range of broadcastSnapshot has visited
    hpc,        \* position of each handleEvents' deferred function
    sentClosed  \* history: a send found its channel closed (the process panics)

workerVars == <<wpc, wname, wq, wtask, wok>>
workerHist == <<stops, dels, handled, posts>>
coordVars == <<cpc, cimg, cop, cpending, cwait, cgot>>
coordHist == <<found, skipped, staleDisp, bend>>
uploadVars == <<up, upQ, acked>>
updVars == <<upc, ucur, updQ>>
sysVars == <<spc, scur, sysQ>>
outcomeCounters == <<variants, totalVariants, failedVariants, successPerOp, failedPerOp, outcomesRecv>>
lifeCounters == <<activeWorkers, startedWorkers, activeWorkersPerOp>>
subVars == <<sub, sbuf, sdrop>>
foreignVars == <<nforeign, nevents>>
scaleVars == <<scpc, body, peer, sci, started, issued, sconf, nowNs, sback, resp>>
evVars == <<emu, bpc, bch, bseen, hpc, sentClosed>>
vars == <<reg, workerVars, workerHist, coordVars, coordHist, uploadVars, updVars,
          sysVars, outcomeCounters, lifeCounters, totalUploads, wcancel, subVars,
          foreignVars, scaleVars, evVars>>

Pairs == Images \X OpSet
\* The keys the variant map can get: image_id is "" when the field is missing.
VariantKeys == (Images \cup {NoImage}) \X OpSet

\* ------------------------------------------------------------- helpers
\* mailboxName := "worker-" + SupportedOp + "-" + name ; key := /ns/workers/op/mailboxName
MailboxName(w) == <<SupportedOp(w), wname[w]>>
Key(w) == MailboxName(w)

\* The worker owns an open mailbox from NewMailbox's success to mb.Close().
OpenPcs == {"idle", "transform", "post", "postWait", "stopWait", "delete", "close"}
\* A mailbox lives exactly as long as the Act that created it has not closed it
\* and its process is alive (variant: it survives the crash of its owner).
MbOpenAfterCrash(w) == wpc[w] \in OpenPcs \cup {"crashed"}
MbOpen(w) == wpc[w] \in OpenPcs
Owners(k) == {w \in Workers : MbOpen(w) /\ MailboxName(w) = k}

InQ(q, w) == \E i \in 1..Len(q) : q[i].from = w
\* The request a worker sent has been acknowledged: it is neither queued nor in hand.
SysAcked(w) == ~InQ(sysQ, w) /\ (IF scur = NoMsg THEN TRUE ELSE scur.from # w)
UpdAcked(w) == ~InQ(updQ, w) /\ (IF ucur = NoMsg THEN TRUE ELSE ucur.from # w)

SysOpen == spc # "start"
UpdOpen == upc # "start"
UploadsOpen == cpc # "start"

Lifecycle(evt, w) == [event |-> evt, op |-> SupportedOp(w), from |-> w]

Bump(f, x) == [f EXCEPT ![x] = @ + 1]

\* broadcastSnapshot: select { case ch <- b: default: } for every ch in eventSubs.
OfferBlind(n) == n + 1
Offer(n) == IF n < SubCap THEN n + 1 ELSE n
BroadcastSnapshot ==
    /\ sbuf' = [c \in Subscribers |-> IF sub[c] = "on" THEN Offer(sbuf[c]) ELSE sbuf[c]]
    /\ sdrop' = [c \in Subscribers |-> sdrop[c] \/ (sub[c] = "on" /\ sbuf[c] >= SubCap)]
    /\ sub' = sub

\* s.eventsMu.Lock() returns when no goroutine holds the mutex.
LockableAlways(holder) == TRUE
Lockable(holder) == holder = NoHolder
\* The keys of s.eventSubs.
EventSubs == {c \in Subscribers : sub[c] = "on"}

\* etcd Put / Delete of one key.
RegPutToggle(r, k) == IF k \in r THEN r \ {k} ELSE r \cup {k}
RegPutOverwrite(r, k) == {k}
RegPut(r, k) == r \cup {k}
RegDeleteKept(r, k) == r
RegDelete(r, k) == r \ {k}

\* --------------------------------------------------------------- Worker.Act
\* An ActorStart with name n runs Act: the worker_start request is issued first.
\* The request fails at once when "system-events" is not open or is full.
WorkerStart(w, n) ==
    /\ wpc[w] = "init"
    /\ wname' = [wname EXCEPT ![w] = n]
    /\ IF SysOpen /\ Len(sysQ) < EventsCap
          THEN /\ sysQ' = Append(sysQ, Lifecycle("worker_start", w))
               /\ wpc' = [wpc EXCEPT ![w] = "startWait"]
          ELSE /\ sysQ' = sysQ
               /\ wpc' = [wpc EXCEPT ![w] = "put"]
    /\ UNCHANGED <<reg, wq, wtask, wok, workerHist, coordVars, coordHist, uploadVars,
                   updVars, spc, scur, outcomeCounters, lifeCounters, totalUploads>>
    /\ UNCHANGED <<foreignVars, wcancel, subVars>>
    /\ UNCHANGED <<scaleVars, evVars>>

\* RequestC(context.Background(), "system-events", worker_start) returns on the Ack.
WorkerStartAcked(w) ==
    /\ wpc[w] = "startWait"
    /\ SysAcked(w)
    /\ wpc' = [wpc EXCEPT ![w] = "put"]
    /\ UNCHANGED <<reg, wname, wq, wtask, wok, workerHist, coordVars, coordHist,
                   uploadVars, updVars, sysVars, outcomeCounters, lifeCounters, totalUploads>>
    /\ UNCHANGED <<foreignVars, wcancel, subVars>>
    /\ UNCHANGED <<scaleVars, evVars>>

\* Etcd.Put(key, ""): a new registration under this key ends the staleness of the key.
WorkerPut(w) ==
    /\ wpc[w] = "put"
    /\ reg' = RegPut(reg, Key(w))
    /\ wpc' = [wpc EXCEPT ![w] = "newmb"]
    /\ staleDisp' = {p \in staleDisp : p[2] # SupportedOp(w)}
    /\ UNCHANGED <<wname, wq, wtask, wok, workerHist, coordVars, found, skipped, bend,
                   uploadVars, updVars, sysVars, outcomeCounters, lifeCounters, totalUploads>>
    /\ UNCHANGED <<foreignVars, wcancel, subVars>>
    /\ UNCHANGED <<scaleVars, evVars>>

\* errors.Is(err, grid.ErrAlreadyRegistered): the name has a live owner.
CollidesNever(owners) == FALSE
Collides(owners) == owners # {}

\* Server.NewMailbox(mailboxName, 100): ErrAlreadyRegistered when the name has a
\* live owner; otherwise it succeeds or fails for another reason.
WorkerNewMailbox(w, fatal) ==
    /\ wpc[w] = "newmb"
    /\ wpc' = [wpc EXCEPT ![w] =
                 IF Collides(Owners(MailboxName(w))) THEN "collide"
                 ELSE IF fatal THEN "fatal" ELSE "idle"]
    /\ UNCHANGED <<reg, wname, wq, wtask, wok, workerHist, coordVars, coordHist,
                   uploadVars, updVars, sysVars, outcomeCounters, lifeCounters, totalUploads>>
    /\ UNCHANGED <<foreignVars, wcancel, subVars>>
    /\ UNCHANGED <<scaleVars, evVars>>

\* Both error branches: Etcd.Delete(key) and return, before any defer is registered.
WorkerFailDelete(w) ==
    /\ wpc[w] \in {"collide", "fatal"}
    /\ reg' = RegDelete(reg, Key(w))
    /\ dels' = Bump(dels, w)
    /\ wpc' = [wpc EXCEPT ![w] = "done"]
    /\ UNCHANGED <<wname, wq, wtask, wok, stops, handled, posts, coordVars, coordHist,
                   uploadVars, updVars, sysVars, outcomeCounters, lifeCounters, totalUploads>>
    /\ UNCHANGED <<foreignVars, subVars>>
    /\ wcancel' = [wcancel EXCEPT ![w] = FALSE]
    /\ UNCHANGED <<scaleVars, evVars>>

\* The shutdown signal: the actor's ctx is cancelled while Act runs.
WorkerCancel(w) ==
    /\ wpc[w] \notin {"init", "done", "crashed"}
    /\ ~wcancel[w]
    /\ wcancel' = [wcancel EXCEPT ![w] = TRUE]
    /\ UNCHANGED <<reg, workerVars, workerHist, coordVars, coordHist, uploadVars, updVars,
                   sysVars, outcomeCounters, lifeCounters, totalUploads, subVars, foreignVars>>
    /\ UNCHANGED <<scaleVars, evVars>>

\* <-ctx.Done() is ready once the actor's ctx is cancelled.
CtxDoneNever(cancelled) == FALSE
CtxDone(cancelled) == cancelled

\* select: case <-ctx.Done(): return. Act reads ctx nowhere else. The deferred
\* function runs: the worker_stop request is issued ...
WorkerCtxDone(w) ==
    /\ wpc[w] = "idle"
    /\ CtxDone(wcancel[w])
    /\ stops' = Bump(stops, w)
    /\ IF SysOpen /\ Len(sysQ) < EventsCap
          THEN /\ sysQ' = Append(sysQ, Lifecycle("worker_stop", w))
               /\ wpc' = [wpc EXCEPT ![w] = "stopWait"]
          ELSE /\ sysQ' = sysQ
               /\ wpc' = [wpc EXCEPT ![w] = "delete"]
    /\ UNCHANGED <<reg, wname, wq, wtask, wok, dels, handled, posts, coordVars, coordHist,
                   uploadVars, updVars, spc, scur, outcomeCounters, lifeCounters, totalUploads>>
    /\ UNCHANGED <<foreignVars, wcancel, subVars>>
    /\ UNCHANGED <<scaleVars, evVars>>

\* if w.SupportedOp != "" && op != w.SupportedOp { Ack; continue }
MismatchNever(sup, op) == FALSE
Mismatch(sup, op) == sup # "" /\ op # sup

\* The worker takes a message only at the select at the top of its loop: the
\* transform, Respond and the outcome request all run inside the case body.
AtSelectOrBusy(pc) == pc \in {"idle", "post"}
AtSelect(pc) == pc = "idle"

\* select: case req := <-mb.C(): a Task of another operation is acked and dropped,
\* a matching one starts the transform.
WorkerReceive(w) ==
    /\ AtSelect(wpc[w])
    /\ wq[w] # <<>>
    /\ wq' = [wq EXCEPT ![w] = Tail(@)]
    /\ LET t == Head(wq[w]) IN
       IF Mismatch(SupportedOp(w), t.op)
          THEN /\ cgot' = (cgot \/ (cpc = "bcast" /\ t.img = cimg /\ t.op = Ops[cop]
                                     /\ MailboxName(w) \in cwait))
               /\ UNCHANGED <<wpc, wtask, handled>>
          ELSE /\ wtask' = [wtask EXCEPT ![w] = t]
               /\ wpc' = [wpc EXCEPT ![w] = "transform"]
               /\ handled' = Bump(handled, w)
               /\ cgot' = cgot
    /\ UNCHANGED <<reg, wname, wok, stops, dels, posts, cpc, cimg, cop, cpending, cwait,
                   coordHist, uploadVars, updVars, sysVars, outcomeCounters, lifeCounters,
                   totalUploads>>
    /\ UNCHANGED <<foreignVars, wcancel, subVars>>
    /\ UNCHANGED <<scaleVars, evVars>>

\* doTransform returns (ok: no error) and req.Respond(result) answers the
\* Coordinator's request when that request is still waiting.
WorkerTransform(w, ok) ==
    /\ wpc[w] = "transform"
    /\ wok' = [wok EXCEPT ![w] = ok]
    /\ wpc' = [wpc EXCEPT ![w] = "post"]
    /\ LET t == wtask[w]
           waiting == cpc = "bcast" /\ t.img = cimg /\ t.op = Ops[cop]
                      /\ MailboxName(w) \in cwait
       IN /\ cgot' = (cgot \/ waiting)
          /\ cwait' = IF waiting THEN cwait \ {MailboxName(w)} ELSE cwait
    /\ UNCHANGED <<reg, wname, wq, wtask, workerHist, cpc, cimg, cop, cpending,
                   coordHist, uploadVars, updVars, sysVars, outcomeCounters, lifeCounters,
                   totalUploads>>
    /\ UNCHANGED <<foreignVars, wcancel, subVars>>
    /\ UNCHANGED <<scaleVars, evVars>>

\* upd.RequestC(context.Background(), ...): the report does not run under the
\* worker's own ctx, so a cancelled ctx does not fail it.
PostUnderWorkerCtx(cancelled) == ~cancelled
PostUnderBackground(cancelled) == TRUE

\* The outcome is reported whether the transform succeeded or not.
PostsOnSuccessOnly(success) == success
PostsOutcome(success) == TRUE

Outcome(w) == [img |-> wtask[w].img, op |-> wtask[w].op, success |-> wok[w],
               path |-> <<wtask[w].img, wtask[w].op>>, from |-> w]

\* upd.RequestC(context.Background(), "transform-updates", result)
WorkerPost(w) ==
    /\ wpc[w] = "post"
    /\ IF PostsOutcome(wok[w]) /\ PostUnderBackground(wcancel[w])
          THEN /\ posts' = Bump(posts, w)
               /\ IF UpdOpen /\ Len(updQ) < UpdatesCap
                     THEN /\ updQ' = Append(updQ, Outcome(w))
                          /\ wpc' = [wpc EXCEPT ![w] = "postWait"]
                          /\ UNCHANGED <<wtask, wok>>
                     ELSE /\ updQ' = updQ
                          /\ wpc' = [wpc EXCEPT ![w] = "idle"]
                          /\ wtask' = [wtask EXCEPT ![w] = NoMsg]
                          /\ wok' = [wok EXCEPT ![w] = TRUE]
          ELSE /\ UNCHANGED <<posts, updQ>>
               /\ wpc' = [wpc EXCEPT ![w] = "idle"]
               /\ wtask' = [wtask EXCEPT ![w] = NoMsg]
               /\ wok' = [wok EXCEPT ![w] = TRUE]
    /\ UNCHANGED <<reg, wname, wq, stops, dels, handled, coordVars, coordHist,
                   uploadVars, upc, ucur, sysVars, outcomeCounters, lifeCounters, totalUploads>>
    /\ UNCHANGED <<foreignVars, wcancel, subVars>>
    /\ UNCHANGED <<scaleVars, evVars>>

WorkerPostAcked(w) ==
    /\ wpc[w] = "postWait"
    /\ UpdAcked(w)
    /\ wpc' = [wpc EXCEPT ![w] = "idle"]
    /\ wtask' = [wtask EXCEPT ![w] = NoMsg]
    /\ wok' = [wok EXCEPT ![w] = TRUE]
    /\ UNCHANGED <<reg, wname, wq, workerHist, coordVars, coordHist, uploadVars,
                   updVars, sysVars, outcomeCounters, lifeCounters, totalUploads>>
    /\ UNCHANGED <<foreignVars, wcancel, subVars>>
    /\ UNCHANGED <<scaleVars, evVars>>

\* ... it returns on the Ack ...
WorkerStopAcked(w) ==
    /\ wpc[w] = "stopWait"
    /\ SysAcked(w)
    /\ wpc' = [wpc EXCEPT ![w] = "delete"]
    /\ UNCHANGED <<reg, wname, wq, wtask, wok, workerHist, coordVars, coordHist,
                   uploadVars, updVars, sysVars, outcomeCounters, lifeCounters, totalUploads>>
    /\ UNCHANGED <<foreignVars, wcancel, subVars>>
    /\ UNCHANGED <<scaleVars, evVars>>

\* ... then Etcd.Delete(key) ...
WorkerDelete(w) ==
    /\ wpc[w] = "delete"
    /\ reg' = RegDelete(reg, Key(w))
    /\ dels' = Bump(dels, w)
    /\ wpc' = [wpc EXCEPT ![w] = "close"]
    /\ UNCHANGED <<wname, wq, wtask, wok, stops, handled, posts, coordVars, coordHist,
                   uploadVars, updVars, sysVars, outcomeCounters, lifeCounters, totalUploads>>
    /\ UNCHANGED <<foreignVars, wcancel, subVars>>
    /\ UNCHANGED <<scaleVars, evVars>>

\* ... and last the deferred mb.Close(): what the mailbox still holds is dropped.
WorkerClose(w) ==
    /\ wpc[w] = "close"
    /\ wq' = [wq EXCEPT ![w] = <<>>]
    /\ wpc' = [wpc EXCEPT ![w] = "done"]
    /\ UNCHANGED <<reg, wname, wtask, wok, workerHist, coordVars, coordHist,
                   uploadVars, updVars, sysVars, outcomeCounters, lifeCounters, totalUploads>>
    /\ UNCHANGED <<foreignVars, subVars>>
    /\ wcancel' = [wcancel EXCEPT ![w] = FALSE]
    /\ UNCHANGED <<scaleVars, evVars>>

\* The worker dies without running any cleanup: its mailbox is gone, its key stays.
WorkerCrash(w) ==
    /\ wpc[w] \notin {"init", "done", "crashed"}
    /\ wpc' = [wpc EXCEPT ![w] = "crashed"]
    /\ wq' = [wq EXCEPT ![w] = <<>>]
    /\ wtask' = [wtask EXCEPT ![w] = NoMsg]
    /\ wok' = [wok EXCEPT ![w] = TRUE]
    /\ UNCHANGED <<reg, wname, workerHist, coordVars, coordHist,
                   uploadVars, updVars, sysVars, outcomeCounters, lifeCounters, totalUploads>>
    /\ UNCHANGED <<foreignVars, subVars>>
    /\ wcancel' = [wcancel EXCEPT ![w] = FALSE]
    /\ UNCHANGED <<scaleVars, evVars>>

\* ---------------------------------------------------------- handleUpload
\* The handler is at `s.totalUploads++`: its request was acked, or it fails at once.
AtIncrement(i) ==
    \/ up[i] = "wait" /\ i \in acked
    \/ up[i] = "new" /\ ~(UploadsOpen /\ Len(upQ) < UploadsCap)
\* s.totalUploads++ runs without s.mu: while another handler is at its own
\* increment the two read-modify-writes may overlap and one of them is lost.
Racing(i) == \E j \in Images \ {i} : AtIncrement(j)
Incremented(i) == IF Racing(i) THEN {totalUploads, totalUploads + 1} ELSE {totalUploads + 1}

\* client.RequestC(r.Context(), "uploads", payload); a failed request is only
\* logged and the upload is counted all the same.
UploadSend(i) ==
    /\ up[i] = "new"
    /\ IF UploadsOpen /\ Len(upQ) < UploadsCap
          THEN /\ upQ' = Append(upQ, [img |-> i, path |-> i])
               /\ up' = [up EXCEPT ![i] = "wait"]
               /\ totalUploads' = totalUploads
               /\ UNCHANGED subVars
          ELSE /\ upQ' = upQ
               /\ up' = [up EXCEPT ![i] = "done"]
               /\ totalUploads' \in Incremented(i)
               /\ BroadcastSnapshot
    /\ UNCHANGED <<reg, workerVars, workerHist, coordVars, coordHist, acked, updVars, sysVars,
                   outcomeCounters, lifeCounters>>
    /\ UNCHANGED <<foreignVars, wcancel>>
    /\ UNCHANGED <<scaleVars, evVars>>

\* The request returns on the Coordinator's Ack: s.totalUploads++, s.broadcastSnapshot()
UploadFinish(i) ==
    /\ up[i] = "wait"
    /\ i \in acked
    /\ up' = [up EXCEPT ![i] = "done"]
    /\ totalUploads' \in Incremented(i)
    /\ UNCHANGED <<reg, workerVars, workerHist, coordVars, coordHist, upQ, acked, updVars,
                   sysVars, outcomeCounters, lifeCounters>>
    /\ UNCHANGED <<foreignVars, wcancel>>
    /\ BroadcastSnapshot
    /\ UNCHANGED <<scaleVars, evVars>>

\* ------------------------------------------------------- Coordinator.Act
CoordStart ==
    /\ cpc = "start"
    /\ cpc' = "recv"
    /\ UNCHANGED <<reg, workerVars, workerHist, cimg, cop, cpending, cwait, cgot, coordHist,
                   uploadVars, updVars, sysVars, outcomeCounters, lifeCounters, totalUploads>>
    /\ UNCHANGED <<foreignVars, wcancel, subVars>>
    /\ UNCHANGED <<scaleVars, evVars>>

\* req.Ack() on the intake request.
IntakeNoAck(a, img) == a
IntakeAck(a, img) == a \cup {img}

\* case req := <-mb.C(): log, Ack, then the loop over ops starts.
CoordReceive ==
    /\ cpc = "recv"
    /\ upQ # <<>>
    /\ upQ' = Tail(upQ)
    /\ acked' = IntakeAck(acked, Head(upQ).img)
    /\ cimg' = Head(upQ).img
    /\ cop' = 1
    /\ cpc' = "disc"
    /\ UNCHANGED <<reg, workerVars, workerHist, cpending, cwait, cgot, coordHist, up,
                   updVars, sysVars, outcomeCounters, lifeCounters, totalUploads>>
    /\ UNCHANGED <<foreignVars, wcancel, subVars>>
    /\ UNCHANGED <<scaleVars, evVars>>

\* Etcd.Get(prefix, WithPrefix()): the mailbox names under /ns/workers/<op>/,
\* or nothing when the read fails.
Members(fail, op) == IF fail THEN {} ELSE {k \in reg : k[1] = op}

\* The end of one iteration of `for _, op := range ops`.
Advance(i) == IF i < Len(Ops) THEN <<"disc", i + 1>> ELSE <<"recv", 1>>
\* if len(members) == 0 { cancel(); continue }
AfterSkipBreak(i) == <<"recv", 1>>
AfterSkip(i) == Advance(i)

\* A key is stale when a crashed worker left it and no other instance has put it since.
StaleKey(k) ==
    /\ \E w \in Workers : wpc[w] = "crashed" /\ Key(w) = k
    /\ \A w \in Workers : Key(w) = k => wpc[w] \in {"crashed", "done", "startWait", "put"}

CoordDiscover(fail) ==
    /\ cpc = "disc"
    /\ LET op == Ops[cop]
           members == Members(fail, op)
           p == <<cimg, op>>
       IN IF members = {}
             THEN /\ skipped' = skipped \cup {p}
                  /\ cpc' = AfterSkip(cop)[1]
                  /\ cop' = AfterSkip(cop)[2]
                  /\ cimg' = IF AfterSkip(cop)[1] = "recv" THEN NoImage ELSE cimg
                  /\ UNCHANGED <<cpending, cwait, cgot, found, staleDisp>>
             ELSE /\ found' = found \cup {p}
                  /\ staleDisp' = IF \A k \in members : StaleKey(k)
                                     THEN staleDisp \cup {p} ELSE staleDisp
                  /\ cpending' = members
                  /\ cwait' = {}
                  /\ cgot' = FALSE
                  /\ cpc' = "bcast"
                  /\ UNCHANGED <<cimg, cop, skipped>>
    /\ UNCHANGED <<reg, workerVars, workerHist, bend, uploadVars, updVars, sysVars,
                   outcomeCounters, lifeCounters, totalUploads>>
    /\ UNCHANGED <<foreignVars, wcancel, subVars>>
    /\ UNCHANGED <<scaleVars, evVars>>

\* A request goes to the mailbox of exactly the discovered name.
Target(k) == Owners(k)

\* BroadcastC makes one request per member of the group: a member that has had
\* its request, delivered or failed, gets no other.
RemainingAll(pending, k) == pending
Remaining(pending, k) == pending \ {k}

\* One request of BroadcastC: the Task is put in the member's mailbox, or the
\* request fails because no such mailbox is open (or it is full).
CoordSend(k) ==
    /\ cpc = "bcast"
    /\ k \in cpending
    /\ cpending' = Remaining(cpending, k)
    /\ LET tgt == {w \in Target(k) : Len(wq[w]) < WorkerCap} IN
       IF tgt # {}
          THEN LET w == CHOOSE x \in tgt : TRUE IN
               /\ wq' = [wq EXCEPT ![w] = Append(@, [img |-> cimg, op |-> Ops[cop]])]
               /\ cwait' = cwait \cup {k}
          ELSE UNCHANGED <<wq, cwait>>
    /\ UNCHANGED <<reg, wpc, wname, wtask, wok, workerHist, cpc, cimg, cop, cgot,
                   coordHist, uploadVars, updVars, sysVars, outcomeCounters, lifeCounters,
                   totalUploads>>
    /\ UNCHANGED <<foreignVars, wcancel, subVars>>
    /\ UNCHANGED <<scaleVars, evVars>>

CoordLeaveBroadcast(how) ==
    /\ bend' = [bend EXCEPT ![<<cimg, Ops[cop]>>] = how]
    /\ cpc' = Advance(cop)[1]
    /\ cop' = Advance(cop)[2]
    /\ cimg' = IF Advance(cop)[1] = "recv" THEN NoImage ELSE cimg
    /\ cpending' = {}
    /\ cwait' = {}
    /\ cgot' = FALSE
    /\ UNCHANGED <<reg, workerVars, workerHist, found, skipped, staleDisp, uploadVars,
                   updVars, sysVars, outcomeCounters, lifeCounters, totalUploads>>
    /\ UNCHANGED <<foreignVars, wcancel, subVars>>
    /\ UNCHANGED <<scaleVars, evVars>>

\* BroadcastC returns: the fastest response arrived, or every request failed.
CoordBroadcastDone ==
    /\ cpc = "bcast"
    /\ cgot \/ (cpending = {} /\ cwait = {})
    /\ CoordLeaveBroadcast(IF cgot THEN "response" ELSE "error")

\* ctxb, cancel := context.WithTimeout(context.Background(), 10*time.Second):
\* the deadline of the operation passes while BroadcastC waits.
ExpiresNever(pc) == FALSE
Expires(pc) == pc = "bcast"

\* BroadcastC returns because ctxb (10 s) ended with requests outstanding.
CoordTimeout ==
    /\ Expires(cpc)
    /\ ~cgot
    /\ cpending # {} \/ cwait # {}
    /\ CoordLeaveBroadcast("timeout")

\* ------------------------------------------------ Server.subscribeUpdates
UpdStart ==
    /\ upc = "start"
    /\ upc' = "recv"
    /\ UNCHANGED <<reg, workerVars, workerHist, coordVars, coordHist, uploadVars, ucur, updQ,
                   sysVars, outcomeCounters, lifeCounters, totalUploads>>
    /\ UNCHANGED <<foreignVars, wcancel, subVars>>
    /\ UNCHANGED <<scaleVars, evVars>>

\* filepath.Base(path) and fmt.Sprintf("/images/%s/%s", id, base)
Base(path) == path[2]
Location(id, path) == <<id, Base(path)>>

\* s.variants[id][op] = location
StoreIfAbsent(old, new) == IF old = NoLoc THEN new ELSE old
Store(old, new) == new

\* case req := <-mb.C(): a message that is no Struct is acked and dropped; of a
\* Struct the variant map is written under s.mu.
UpdReceive ==
    /\ upc = "recv"
    /\ updQ # <<>>
    /\ LET m == Head(updQ) IN
       IF m = Untyped
          THEN UNCHANGED <<ucur, variants, outcomesRecv, upc>>
          ELSE /\ ucur' = m
               /\ variants' = [variants EXCEPT ![<<m.img, m.op>>] =
                                   Store(@, Location(m.img, m.path))]
               /\ outcomesRecv' = Bump(outcomesRecv, m.op)
               /\ upc' = "count"
    /\ updQ' = Tail(updQ)
    /\ UNCHANGED <<reg, workerVars, workerHist, coordVars, coordHist, uploadVars, sysVars,
                   totalVariants, failedVariants, successPerOp, failedPerOp, lifeCounters,
                   totalUploads>>
    /\ UNCHANGED <<foreignVars, wcancel, subVars>>
    /\ UNCHANGED <<scaleVars, evVars>>

\* if success { totalVariants++; successPerOp[op]++ } else { failedVariants++; failedPerOp[op]++ }
FailureDeltaAlways(success) == 1
SuccessDelta(success) == IF success THEN 1 ELSE 0
FailureDelta(success) == IF success THEN 0 ELSE 1

\* The counters, then s.broadcastSnapshot() and req.Ack().
UpdCount ==
    /\ upc = "count"
    /\ totalVariants' = totalVariants + SuccessDelta(ucur.success)
    /\ successPerOp' = [successPerOp EXCEPT ![ucur.op] = @ + SuccessDelta(ucur.success)]
    /\ failedVariants' = failedVariants + FailureDelta(ucur.success)
    /\ failedPerOp' = [failedPerOp EXCEPT ![ucur.op] = @ + FailureDelta(ucur.success)]
    /\ ucur' = NoMsg
    /\ upc' = "recv"
    /\ UNCHANGED <<reg, workerVars, workerHist, coordVars, coordHist, uploadVars, updQ,
                   sysVars, variants, outcomesRecv, lifeCounters, totalUploads>>
    /\ UNCHANGED <<foreignVars, wcancel>>
    /\ BroadcastSnapshot
    /\ UNCHANGED <<scaleVars, evVars>>

\* ------------------------------------------- Server.subscribeSystemEvents
SysStart ==
    /\ spc = "start"
    /\ spc' = "recv"
    /\ UNCHANGED <<reg, workerVars, workerHist, coordVars, coordHist, uploadVars, updVars,
                   scur, sysQ, outcomeCounters, lifeCounters, totalUploads>>
    /\ UNCHANGED <<foreignVars, wcancel, subVars>>
    /\ UNCHANGED <<scaleVars, evVars>>

\* if n > 0 { n-- }
DecrUnclamped(n) == n - 1
Decr(n) == IF n > 0 THEN n - 1 ELSE n

\* case req := <-mb.C(): the switch on the event name, under s.mu.
SysReceive ==
    /\ spc = "recv"
    /\ sysQ # <<>>
    /\ LET m == Head(sysQ) IN
       /\ scur' = m
       /\ CASE m.event = "worker_start" ->
                 /\ startedWorkers' = startedWorkers + 1
                 /\ activeWorkers' = activeWorkers + 1
                 /\ activeWorkersPerOp' = [activeWorkersPerOp EXCEPT ![m.op] = @ + 1]
            [] m.event = "worker_stop" ->
                 /\ startedWorkers' = startedWorkers
                 /\ activeWorkers' = Decr(activeWorkers)
                 /\ activeWorkersPerOp' = [activeWorkersPerOp EXCEPT ![m.op] = Decr(@)]
            [] OTHER -> UNCHANGED lifeCounters
    /\ sysQ' = Tail(sysQ)
    /\ spc' = "bcast"
    /\ UNCHANGED <<reg, workerVars, workerHist, coordVars, coordHist, uploadVars, updVars,
                   outcomeCounters, totalUploads>>
    /\ UNCHANGED <<foreignVars, wcancel, subVars>>
    /\ UNCHANGED <<scaleVars, evVars>>

\* s.broadcastSnapshot(); req.Ack()
SysAck ==
    /\ spc = "bcast"
    /\ scur' = NoMsg
    /\ spc' = "recv"
    /\ UNCHANGED <<reg, workerVars, workerHist, coordVars, coordHist, uploadVars, updVars,
                   sysQ, outcomeCounters, lifeCounters, totalUploads>>
    /\ UNCHANGED <<foreignVars, wcancel>>
    /\ BroadcastSnapshot
    /\ UNCHANGED <<scaleVars, evVars>>

\* ------------------------------------------------------ Server.handleEvents
\* ch := make(chan []byte, 16); s.eventSubs[ch] = struct{}{}
SubConnect(c) ==
    /\ sub[c] = "off" /\ hpc[c] = "none"
    /\ Lockable(emu)
    /\ sub' = [sub EXCEPT ![c] = "on"]
    /\ sbuf' = [sbuf EXCEPT ![c] = 0]
    /\ sdrop' = [sdrop EXCEPT ![c] = FALSE]
    /\ UNCHANGED <<reg, workerVars, workerHist, coordVars, coordHist, uploadVars, updVars,
                   sysVars, outcomeCounters, lifeCounters, totalUploads, wcancel, foreignVars>>
    /\ UNCHANGED <<scaleVars, evVars>>

\* case b := <-ch: the snapshot is written to the response.
SubRead(c) ==
    /\ sub[c] = "on"
    /\ sbuf[c] > 0
    /\ sbuf' = [sbuf EXCEPT ![c] = @ - 1]
    /\ UNCHANGED <<reg, workerVars, workerHist, coordVars, coordHist, uploadVars, updVars,
                   sysVars, outcomeCounters, lifeCounters, totalUploads, wcancel, sub, sdrop,
                   foreignVars>>
    /\ UNCHANGED <<scaleVars, evVars>>

\* case <-r.Context().Done(): delete(s.eventSubs, ch); close(ch)
SubDisconnect(c) ==
    /\ sub[c] = "on"
    /\ sub' = [sub EXCEPT ![c] = "off"]
    /\ sbuf' = [sbuf EXCEPT ![c] = 0]
    /\ sdrop' = [sdrop EXCEPT ![c] = FALSE]
    /\ UNCHANGED <<reg, workerVars, workerHist, coordVars, coordHist, uploadVars, updVars,
                   sysVars, outcomeCounters, lifeCounters, totalUploads, wcancel, foreignVars>>
    /\ UNCHANGED <<scaleVars, evVars>>

\* The deferred function of handleEvents, step by step. First
\* s.eventsMu.Lock(); delete(s.eventSubs, ch); s.eventsMu.Unlock(): the channel
\* keeps what it holds.
SubDelete(c) ==
    /\ sub[c] = "on" /\ hpc[c] = "none"
    /\ Lockable(emu)
    /\ sub' = [sub EXCEPT ![c] = "off"]
    /\ hpc' = [hpc EXCEPT ![c] = "deleted"]
    /\ UNCHANGED <<sbuf, sdrop, emu, bpc, bch, bseen, sentClosed>>
    /\ UNCHANGED <<reg, workerVars, workerHist, coordVars, coordHist, uploadVars, updVars,
                   sysVars, outcomeCounters, lifeCounters, totalUploads, wcancel, foreignVars>>
    /\ UNCHANGED scaleVars

\* Then close(ch), with the mutex released.
SubClose(c) ==
    /\ hpc[c] = "deleted"
    /\ hpc' = [hpc EXCEPT ![c] = "closed"]
    /\ UNCHANGED <<subVars, emu, bpc, bch, bseen, sentClosed>>
    /\ UNCHANGED <<reg, workerVars, workerHist, coordVars, coordHist, uploadVars, updVars,
                   sysVars, outcomeCounters, lifeCounters, totalUploads, wcancel, foreignVars>>
    /\ UNCHANGED scaleVars

\* ------------------------------------------------- Server.broadcastSnapshot
\* The same function at the grain of its mutex, for each of its callers.
\* b, err := s.snapshotJSON(); s.eventsMu.Lock()
BcastLock(b) ==
    /\ bpc[b] = "idle"
    /\ Lockable(emu)
    /\ emu' = b
    /\ bpc' = [bpc EXCEPT ![b] = "range"]
    /\ bseen' = [bseen EXCEPT ![b] = {}]
    /\ UNCHANGED <<subVars, bch, hpc, sentClosed>>
    /\ UNCHANGED <<reg, workerVars, workerHist, coordVars, coordHist, uploadVars, updVars,
                   sysVars, outcomeCounters, lifeCounters, totalUploads, wcancel, foreignVars>>
    /\ UNCHANGED scaleVars

\* for ch := range s.eventSubs: the range produces a key of the map it has not
\* produced yet.
BcastNext(b, c) ==
    /\ bpc[b] = "range"
    /\ c \in EventSubs \ bseen[b]
    /\ bch' = [bch EXCEPT ![b] = c]
    /\ bpc' = [bpc EXCEPT ![b] = "send"]
    /\ UNCHANGED <<subVars, emu, bseen, hpc, sentClosed>>
    /\ UNCHANGED <<reg, workerVars, workerHist, coordVars, coordHist, uploadVars, updVars,
                   sysVars, outcomeCounters, lifeCounters, totalUploads, wcancel, foreignVars>>
    /\ UNCHANGED scaleVars

\* select { case ch <- b: default: }: a send on a closed channel panics.
BcastSend(b) ==
    /\ bpc[b] = "send"
    /\ IF hpc[bch[b]] = "closed"
          THEN /\ sentClosed' = TRUE
               /\ UNCHANGED <<sbuf, sdrop>>
          ELSE /\ sbuf' = [sbuf EXCEPT ![bch[b]] = Offer(@)]
               /\ sdrop' = [sdrop EXCEPT ![bch[b]] = @ \/ sbuf[bch[b]] >= SubCap]
               /\ sentClosed' = sentClosed
    /\ bseen' = [bseen EXCEPT ![b] = @ \cup {bch[b]}]
    /\ bch' = [bch EXCEPT ![b] = NoChan]
    /\ bpc' = [bpc EXCEPT ![b] = "range"]
    /\ UNCHANGED <<sub, emu, hpc>>
    /\ UNCHANGED <<reg, workerVars, workerHist, coordVars, coordHist, uploadVars, updVars,
                   sysVars, outcomeCounters, lifeCounters, totalUploads, wcancel, foreignVars>>
    /\ UNCHANGED scaleVars

\* The range is over: s.eventsMu.Unlock()
BcastUnlock(b) ==
    /\ bpc[b] = "range"
    /\ EventSubs \ bseen[b] = {}
    /\ emu' = NoHolder
    /\ bpc' = [bpc EXCEPT ![b] = "idle"]
    /\ bseen' = [bseen EXCEPT ![b] = {}]
    /\ UNCHANGED <<subVars, bch, hpc, sentClosed>>
    /\ UNCHANGED <<reg, workerVars, workerHist, coordVars, coordHist, uploadVars, updVars,
                   sysVars, outcomeCounters, lifeCounters, totalUploads, wcancel, foreignVars>>
    /\ UNCHANGED scaleVars

\* ------------------------------------------------------ Server.handleScale
NoBody == [bad |-> FALSE, op |-> "", n |-> 0]
NoResp == [code |-> 0, started |-> 0]
\* The bodies a client posts: undecodable, or {op, n} with op empty, known or
\* unknown and n negative, zero or positive.
ScaleOps == {"", "grayscale", "blur", "resize"}
ScaleNs == -1..MaxN
\* time.Now().UnixNano() is the wall clock: between two readings it may stand
\* still, advance, or step back.
Ticks == -1..MaxTick

\* actorType := map[string]string{...}[body.Op]
ActorType(op) ==
    CASE op = "thumbnail" -> "worker-thumb"
      [] op = "grayscale" -> "worker-gray"
      [] op = "blur" -> "worker-blur"
      [] op = "rotate90" -> "worker-rot"
      [] OTHER -> ""

\* fmt.Sprintf("%s-%d", actorType, time.Now().UnixNano()+int64(i))
ActorName(actorType, now, i) == <<actorType, now + i>>

\* if _, err := client.RequestC(...); err == nil { started++ }
StartedAlways(n, ok) == n + 1
StartedAfter(n, ok) == IF ok THEN n + 1 ELSE n

\* The handler up to its loop: 400 for an undecodable body, for n <= 0 or an
\* empty op and for an unknown op; 500 when the grid client cannot be created
\* or the peer is not serving.
ScaleRequest(bad, op, n, client, serving) ==
    /\ scpc = "idle"
    /\ body' = IF bad THEN [NoBody EXCEPT !.bad = TRUE] ELSE [bad |-> FALSE, op |-> op, n |-> n]
    /\ peer' = [client |-> client, serving |-> serving]
    /\ IF bad \/ body'.n <= 0 \/ body'.op = "" \/ ActorType(body'.op) = ""
          THEN scpc' = "done" /\ resp' = [code |-> 400, started |-> 0]
          ELSE IF ~client \/ ~serving
                  THEN scpc' = "done" /\ resp' = [code |-> 500, started |-> 0]
                  ELSE scpc' = "loop" /\ resp' = resp
    /\ sci' = 0 /\ started' = 0
    /\ UNCHANGED <<issued, sconf, nowNs, sback>>
    /\ UNCHANGED <<reg, workerVars, workerHist, coordVars, coordHist, uploadVars, updVars,
                   sysVars, outcomeCounters, lifeCounters, totalUploads, wcancel, subVars,
                   foreignVars>>
    /\ UNCHANGED evVars

\* One iteration, up to the request: the name is built from a new reading of
\* the clock and i, and the ActorStart request is sent to the peer.
ScaleIssue(d) ==
    /\ scpc = "loop" /\ sci < body.n
    /\ nowNs' = nowNs + d
    /\ sback' = (sback \/ (issued # <<>> /\ d < 0))
    /\ issued' = Append(issued, ActorName(ActorType(body.op), nowNs + d, sci))
    /\ scpc' = "wait"
    /\ UNCHANGED <<body, peer, sci, started, sconf, resp>>
    /\ UNCHANGED <<reg, workerVars, workerHist, coordVars, coordHist, uploadVars, updVars,
                   sysVars, outcomeCounters, lifeCounters, totalUploads, wcancel, subVars,
                   foreignVars>>
    /\ UNCHANGED evVars

\* RequestC returns: the peer confirmed the start (ok) or the request failed.
ScaleConfirm(ok) ==
    /\ scpc = "wait"
    /\ started' = StartedAfter(started, ok)
    /\ sconf' = IF ok THEN sconf + 1 ELSE sconf
    /\ sci' = sci + 1
    /\ scpc' = "loop"
    /\ UNCHANGED <<body, peer, issued, nowNs, sback, resp>>
    /\ UNCHANGED <<reg, workerVars, workerHist, coordVars, coordHist, uploadVars, updVars,
                   sysVars, outcomeCounters, lifeCounters, totalUploads, wcancel, subVars,
                   foreignVars>>
    /\ UNCHANGED evVars

\* json.NewEncoder(w).Encode(map[string]int{"started": started})
ScaleRespond ==
    /\ scpc = "loop" /\ sci >= body.n
    /\ resp' = [code |-> 200, started |-> started]
    /\ scpc' = "done"
    /\ UNCHANGED <<body, peer, sci, started, issued, sconf, nowNs, sback>>
    /\ UNCHANGED <<reg, workerVars, workerHist, coordVars, coordHist, uploadVars, updVars,
                   sysVars, outcomeCounters, lifeCounters, totalUploads, wcancel, subVars,
                   foreignVars>>
    /\ UNCHANGED evVars

\* ------------------------------------------------------------------ s.mu
\* The Aggregator's fields, and the accesses to them that the goroutines of the
\* server are about to make: which fields, whether they are written, and how
\* s.mu is held meanwhile ("W": Lock, "R": RLock, "none": not at all).
AllFields == {"variants", "totalUploads", "totalVariants", "failedVariants",
              "activeWorkers", "startedWorkers", "activeWorkersPerOp",
              "successPerOp", "failedPerOp"}
Access(c, f, wr, l) == [ctx |-> c, fields |-> f, write |-> wr, lock |-> l]
\* snapshotJSON: s.mu.RLock(); every field is read.
SnapshotRead(c) == Access(c, AllFields, FALSE, "R")
\* subscribeUpdates: the variant map under Lock; later the counters of the
\* outcome without any lock, then broadcastSnapshot.
OutcomeAccesses ==
    IF upc = "recv" /\ updQ # <<>>
       THEN (IF Head(updQ) = Untyped THEN {}
             ELSE {Access(<<"outcome">>, {"variants"}, TRUE, "W")})
    ELSE IF upc = "count"
       THEN {Access(<<"outcome">>,
                    IF ucur.success THEN {"totalVariants", "successPerOp"}
                                    ELSE {"failedVariants", "failedPerOp"},
                    TRUE, "none"),
             SnapshotRead(<<"outcome">>)}
    ELSE {}
\* subscribeSystemEvents: the switch under Lock, then broadcastSnapshot.
LifecycleAccesses ==
    IF spc = "recv" /\ sysQ # <<>>
       THEN {Access(<<"lifecycle">>, {"startedWorkers", "activeWorkers", "activeWorkersPerOp"},
                    TRUE, "W")}
    ELSE IF spc = "bcast" THEN {SnapshotRead(<<"lifecycle">>)}
    ELSE {}
\* handleUpload: s.totalUploads++ without any lock, then broadcastSnapshot.
UploadAccesses ==
    UNION {IF AtIncrement(i)
              THEN {Access(<<"upload", i>>, {"totalUploads"}, TRUE, "none"),
                    SnapshotRead(<<"upload", i>>)}
              ELSE {} : i \in Images}
Accesses == OutcomeAccesses \cup LifecycleAccesses \cup UploadAccesses
\* sync.RWMutex: two holders exclude each other unless both hold it for reading.
Excluded(a, b) == a.lock # "none" /\ b.lock # "none" /\ (a.lock = "W" \/ b.lock = "W")
\* A data race: two goroutines access the same field, one of them writes, and
\* the lock does not keep them apart.
Race ==
    \E a, b \in Accesses :
        /\ a.ctx # b.ctx
        /\ a.fields \cap b.fields # {}
        /\ a.write \/ b.write
        /\ ~Excluded(a, b)

\* ------------------------------------------- other clients of the namespace
\* Any grid client of the namespace can send to a mailbox by name.
\* A Task for any operation put in a worker's open mailbox.
ForeignTask(w, i, op) ==
    /\ nforeign < MaxForeign
    /\ MbOpen(w) /\ Len(wq[w]) < WorkerCap
    /\ wq' = [wq EXCEPT ![w] = Append(@, [img |-> i, op |-> op])]
    /\ nforeign' = nforeign + 1
    /\ UNCHANGED <<reg, wpc, wname, wtask, wok, workerHist, coordVars, coordHist, uploadVars,
                   updVars, sysVars, outcomeCounters, lifeCounters, totalUploads, wcancel,
                   subVars, nevents>>
    /\ UNCHANGED <<scaleVars, evVars>>

\* The messages sent to "transform-updates": one that is no Struct, and Structs
\* for op with or without image_id (id = "") and success, with a path of their own.
ForeignOutcomes ==
    {Untyped} \cup
    {[img |-> i, op |-> "grayscale", success |-> b, path |-> <<i, "x">>, from |-> "foreign"] :
        i \in Images \cup {NoImage}, b \in BOOLEAN}

ForeignOutcome(m) ==
    /\ nforeign < MaxForeign
    /\ UpdOpen /\ Len(updQ) < UpdatesCap
    /\ updQ' = Append(updQ, m)
    /\ nforeign' = nforeign + 1
    /\ UNCHANGED <<reg, workerVars, workerHist, coordVars, coordHist, uploadVars, upc, ucur,
                   sysVars, outcomeCounters, lifeCounters, totalUploads, wcancel, subVars,
                   nevents>>
    /\ UNCHANGED <<scaleVars, evVars>>

\* A lifecycle event sent to "system-events"; the sender waits for the Ack
\* before it sends the next.
ForeignEvent(e, op) ==
    /\ nevents < MaxEvents
    /\ SysOpen /\ Len(sysQ) < EventsCap
    /\ SysAcked("foreign")
    /\ sysQ' = Append(sysQ, [event |-> e, op |-> op, from |-> "foreign"])
    /\ nevents' = nevents + 1
    /\ UNCHANGED <<reg, workerVars, workerHist, coordVars, coordHist, uploadVars, updVars,
                   spc, scur, outcomeCounters, lifeCounters, totalUploads, wcancel, subVars,
                   nforeign>>
    /\ UNCHANGED <<scaleVars, evVars>>

\* ------------------------------------------------------------------ system
Init ==
    /\ reg = {}
    /\ wpc = [w \in Workers |-> "init"]
    /\ wname = [w \in Workers |-> NoName]
    /\ wq = [w \in Workers |-> <<>>]
    /\ wtask = [w \in Workers |-> NoMsg]
    /\ wok = [w \in Workers |-> TRUE]
    /\ stops = [w \in Workers |-> 0]
    /\ dels = [w \in Workers |-> 0]
    /\ handled = [w \in Workers |-> 0]
    /\ posts = [w \in Workers |-> 0]
    /\ cpc = "start" /\ cimg = NoImage /\ cop = 1
    /\ cpending = {} /\ cwait = {} /\ cgot = FALSE
    /\ up = [i \in Images |-> "new"] /\ upQ = <<>> /\ acked = {}
    /\ upc = "start" /\ ucur = NoMsg /\ updQ = <<>>
    /\ spc = "start" /\ scur = NoMsg /\ sysQ = <<>>
    /\ variants = [p \in VariantKeys |-> NoLoc]
    /\ totalUploads = 0 /\ totalVariants = 0 /\ failedVariants = 0
    /\ activeWorkers = 0 /\ startedWorkers = 0
    /\ activeWorkersPerOp = [o \in OpSet |-> 0]
    /\ successPerOp = [o \in OpSet |-> 0]
    /\ failedPerOp = [o \in OpSet |-> 0]
    /\ outcomesRecv = [o \in OpSet |-> 0]
    /\ found = {} /\ skipped = {} /\ staleDisp = {}
    /\ bend = [p \in Pairs |-> "none"]
    /\ wcancel = [w \in Workers |-> FALSE]
    /\ sub = [c \in Subscribers |-> "off"]
    /\ sbuf = [c \in Subscribers |-> 0]
    /\ sdrop = [c \in Subscribers |-> FALSE]
    /\ nforeign = 0 /\ nevents = 0
    /\ scpc = "idle" /\ body = NoBody /\ peer = [client |-> TRUE, serving |-> TRUE]
    /\ sci = 0 /\ started = 0 /\ issued = <<>> /\ sconf = 0
    /\ nowNs = 0 /\ sback = FALSE /\ resp = NoResp
    /\ emu = NoHolder
    /\ bpc = [b \in Broadcasters |-> "idle"]
    /\ bch = [b \in Broadcasters |-> NoChan]
    /\ bseen = [b \in Broadcasters |-> {}]
    /\ hpc = [c \in Subscribers |-> "none"]
    /\ sentClosed = FALSE

StartActs ==
    \/ \E w \in Workers : \E n \in ActorNames(w) : WorkerStart(w, n)
    \/ \E w \in Workers : WorkerPut(w)
    \/ \E w \in Workers : \E fatal \in BOOLEAN : WorkerNewMailbox(w, fatal)
    \/ \E w \in Workers : WorkerFailDelete(w)

ExitActs ==
    \/ \E w \in Workers : WorkerCancel(w)
    \/ \E w \in Workers : WorkerCtxDone(w)
    \/ \E w \in Workers : WorkerDelete(w)
    \/ \E w \in Workers : WorkerClose(w)

EventAckActs ==
    \/ \E w \in Workers : WorkerStartAcked(w)
    \/ \E w \in Workers : WorkerStopAcked(w)

CrashActs == \E w \in Workers : WorkerCrash(w)

TaskActs ==
    \/ \E w \in Workers : WorkerReceive(w)
    \/ \E w \in Workers : \E ok \in BOOLEAN : WorkerTransform(w, ok)
    \/ \E w \in Workers : WorkerPost(w)
    \/ \E w \in Workers : WorkerPostAcked(w)

UploadActs ==
    \/ \E i \in Images : UploadSend(i)
    \/ \E i \in Images : UploadFinish(i)

CoordActs ==
    \/ CoordStart
    \/ CoordReceive
    \/ \E fail \in BOOLEAN : CoordDiscover(fail)
    \/ \E k \in cpending : CoordSend(k)
    \/ CoordBroadcastDone
    \/ CoordTimeout

UpdActs == UpdStart \/ UpdReceive \/ UpdCount

SysActs == SysStart \/ SysReceive \/ SysAck

SubActs ==
    \/ \E c \in Subscribers : SubConnect(c)
    \/ \E c \in Subscribers : SubRead(c)
    \/ \E c \in Subscribers : SubDisconnect(c)

ForeignTaskActs ==
    \E w \in Workers : \E i \in Images : \E op \in {"grayscale", "blur"} : ForeignTask(w, i, op)

ForeignOutcomeActs == \E m \in ForeignOutcomes : ForeignOutcome(m)

EventActs == \E e \in {"worker_stop", "bogus"} : ForeignEvent(e, "grayscale")

\* The lifecycle events of workers of two operations, in any order: a start or
\* a stop may be missing (its request failed) or come twice.
LifecycleActs ==
    \E e \in {"worker_start", "worker_stop"} : \E op \in {"grayscale", "blur"} : ForeignEvent(e, op)

ScaleActs ==
    \/ \E bad \in BOOLEAN : \E op \in ScaleOps : \E n \in ScaleNs :
          \E client \in BOOLEAN : \E serving \in BOOLEAN :
              ScaleRequest(bad, op, n, client, serving)
    \/ \E d \in Ticks : ScaleIssue(d)
    \/ \E ok \in BOOLEAN : ScaleConfirm(ok)
    \/ ScaleRespond

\* The dispatch system: workers, upload handlers, the Coordinator and the two
\* loops of the Aggregator.
Next ==
    \/ StartActs
    \/ ExitActs
    \/ EventAckActs
    \/ CrashActs
    \/ TaskActs
    \/ UploadActs
    \/ CoordActs
    \/ UpdActs
    \/ SysActs

Spec == Init /\ [][Next]_vars

\* The workers' lifecycle and the lifecycle loop alone: no image is uploaded.
NextLife == StartActs \/ ExitActs \/ EventAckActs \/ CrashActs \/ SysActs

LifeSpec == Init /\ [][NextLife]_vars

\* The dispatch path: uploads, Coordinator, workers that start and serve, and
\* the outcome loop. subscribeSystemEvents has not opened its mailbox, so the
\* workers' lifecycle requests fail at once; no worker is shut down or crashes.
NextFlow == StartActs \/ TaskActs \/ UploadActs \/ CoordActs \/ UpdActs

FlowSpec == Init /\ [][NextFlow]_vars

\* The dispatch path with workers that may crash at any point.
NextCrash == NextFlow \/ CrashActs

CrashSpec == Init /\ [][NextCrash]_vars

\* Workers that start, serve Tasks a foreign client sends them, also Tasks of
\* another operation, and are shut down at any point; the outcome loop.
NextShutdown == StartActs \/ TaskActs \/ ExitActs \/ UpdActs \/ ForeignTaskActs

ShutdownSpec == Init /\ [][NextShutdown]_vars

\* The outcome loop fed by the workers and by a foreign client.
NextOutcome == StartActs \/ TaskActs \/ UpdActs \/ ForeignTaskActs \/ ForeignOutcomeActs

OutcomeSpec == Init /\ [][NextOutcome]_vars

\* The /events handlers and the callers of broadcastSnapshot, at the grain of
\* s.eventsMu.
HandlerActs ==
    \/ \E c \in Subscribers : SubConnect(c)
    \/ \E c \in Subscribers : SubRead(c)
    \/ \E c \in Subscribers : SubDelete(c)
    \/ \E c \in Subscribers : SubClose(c)

BcastActs ==
    \/ \E b \in Broadcasters : BcastLock(b)
    \/ \E b \in Broadcasters : \E c \in Subscribers : BcastNext(b, c)
    \/ \E b \in Broadcasters : BcastSend(b)
    \/ \E b \in Broadcasters : BcastUnlock(b)

NextEvents == HandlerActs \/ BcastActs

EventsSpec == Init /\ [][NextEvents]_vars

\* The lifecycle loop fed by a foreign client, and the /events subscribers.
NextSnap == SysActs \/ EventActs \/ SubActs

SnapSpec == Init /\ [][NextSnap]_vars

\* Every step of one Worker.Act but its start, which the starter of the actor
\* decides, and the cancellation of its ctx.
WorkerStep(w) ==
    \/ WorkerStartAcked(w) \/ WorkerPut(w)
    \/ (\E fatal \in BOOLEAN : WorkerNewMailbox(w, fatal))
    \/ WorkerFailDelete(w)
    \/ WorkerReceive(w)
    \/ (\E ok \in BOOLEAN : WorkerTransform(w, ok))
    \/ WorkerPost(w) \/ WorkerPostAcked(w)
    \/ WorkerCtxDone(w) \/ WorkerStopAcked(w) \/ WorkerDelete(w) \/ WorkerClose(w)

\* One worker that serves foreign Tasks and is shut down at any point, with both
\* loops of the Aggregator. Every goroutine that can take a step eventually
\* takes one: the worker's (a transform returns, a select with a ready case
\* fires) and the two loops of a live Aggregator. When the Task arrives and when
\* the ctx is cancelled is up to the environment.
NextStop ==
    \/ \E n \in ActorNames("w1") : WorkerStart("w1", n)
    \/ WorkerStep("w1")
    \/ WorkerCancel("w1")
    \/ UpdActs
    \/ SysActs
    \/ \E i \in Images : \E op \in {"grayscale", "blur"} : ForeignTask("w1", i, op)

StopSpec ==
    /\ Init /\ [][NextStop]_vars
    /\ WF_vars(WorkerStep("w1"))
    /\ WF_vars(UpdActs) /\ WF_vars(SysActs)

\* The dispatch path without the Aggregator's loops: the outcome reports fail at
\* once. Only the Coordinator is scheduled fairly (its registry read returns or
\* fails by the deadline, each request of a broadcast is issued, the deadline
\* passes); a worker may start, take a Task or answer, or never do so.
NextDispatch ==
    \/ StartActs
    \/ \E w \in Workers : WorkerReceive(w)
    \/ \E w \in Workers : \E ok \in BOOLEAN : WorkerTransform(w, ok)
    \/ \E w \in Workers : WorkerPost(w)
    \/ UploadActs
    \/ CoordActs

DispatchSpec == Init /\ [][NextDispatch]_vars /\ WF_vars(CoordActs)

\* One administrative scale request.
NextScale == ScaleActs

ScaleSpec == Init /\ [][NextScale]_vars

\* The lifecycle loop fed with the events of workers of two operations.
NextCount == SysActs \/ LifecycleActs

CountSpec == Init /\ [][NextCount]_vars

\* ------------------------------------------------------------ vocabulary
Range(q) == {q[i] : i \in 1..Len(q)}
PairOf(m) == <<m.img, m.op>>
\* The Tasks in a worker's mailbox or hands, and the outcomes on their way.
TasksAt(w) == Range(wq[w]) \cup (IF wtask[w] = NoMsg THEN {} ELSE {wtask[w]})
TaskPairs == UNION {{PairOf(t) : t \in TasksAt(w)} : w \in Workers}
OutcomesInFlight == Range(updQ) \cup (IF ucur = NoMsg THEN {} ELSE {ucur})
OutcomePairs == {PairOf(m) : m \in OutcomesInFlight}
Recorded(p) == variants[p] # NoLoc
Counted(op) == successPerOp[op] + failedPerOp[op]
FoundFor(op) == {p \in found : p[2] = op}
\* Nothing is queued or in hand anywhere and every upload handler has returned.
Quiescent ==
    /\ cpc = "recv" /\ upQ = <<>>
    /\ \A i \in Images : up[i] = "done"
    /\ upc = "recv" /\ updQ = <<>>
    /\ spc = "recv" /\ sysQ = <<>>
    /\ \A w \in Workers : wpc[w] \in {"idle", "done"} /\ wq[w] = <<>>

\* ------------------------------------------------------------------- C1
\* C1: every (image, op) whose discovery listed at least one worker gets an
\* outcome recorded by the Aggregator. Stated on the final result: once nothing
\* is left to do anywhere, with every worker up and waiting at its mailbox (none
\* crashed, none stopped) and unless the broadcast of the pair was cut by its
\* deadline, the pair has its variant-map entry and a counted outcome.
AllServing == \A w \in Workers : wpc[w] = "idle" /\ wq[w] = <<>>
C1_OutcomeRecorded ==
    (Quiescent /\ AllServing) =>
        \A p \in found : bend[p] # "timeout" => (Recorded(p) /\ Counted(p[2]) >= 1)

\* ------------------------------------------------------------------- C2
\* C2: the outcome of a dispatched (image, op) is counted exactly once: the
\* success and failure counters of op together never exceed the number of images
\* dispatched for op, however many workers were registered.
C2_CountedOnce ==
    \A op \in OpSet : Counted(op) <= Cardinality(FoundFor(op))

\* ------------------------------------------------------------------- C3
\* C3: success[op] + failed[op] equals the number of outcome messages for op the
\* outcome loop has taken (less the one whose counters are still to be written);
\* every step adds 1 to exactly one of the two counters, success when the
\* message says success and failure otherwise, or leaves both alone.
C3_State ==
    \A op \in OpSet :
        Counted(op) = outcomesRecv[op] - (IF upc = "count" /\ ucur.op = op THEN 1 ELSE 0)
C3_Step ==
    \A op \in OpSet :
        LET ds == successPerOp'[op] - successPerOp[op]
            df == failedPerOp'[op] - failedPerOp[op]
        IN /\ ds \in {0, 1} /\ df \in {0, 1} /\ ds + df <= 1
           /\ (ds + df = 1) => (upc = "count" /\ ucur.op = op /\ (ds = 1 <=> ucur.success))
C3_CountersMatchOutcomes == [] C3_State /\ [][C3_Step]_vars
\* Both a successful and a failed outcome of one operation have been counted.
C3_Witness ==
    /\ successPerOp["grayscale"] = 1 /\ failedPerOp["grayscale"] = 1
    /\ upc = "recv"

\* ------------------------------------------------------------------- C4
\* C4: the active-worker counters, per operation and global, are never negative.
C4_ActiveNonNegative ==
    /\ activeWorkers >= 0
    /\ \A op \in OpSet : activeWorkersPerOp[op] >= 0
\* A worker_stop has just been handled although no worker_start ever was.
C4_Witness ==
    /\ spc = "bcast"
    /\ scur.event = "worker_stop"
    /\ startedWorkers = 0
    /\ activeWorkersPerOp[scur.op] = 0

\* ------------------------------------------------------------------- C5
\* C5: the Coordinator has acked an intake message before it discovers or sends
\* anything for that image, and its receive-and-ack step needs no worker: it is
\* enabled whenever the Coordinator waits at a non-empty intake mailbox.
C5_AckBeforeFanOut ==
    /\ cpc \in {"disc", "bcast"} => cimg \in acked
    /\ \A p \in found \cup skipped \cup TaskPairs \cup OutcomePairs : p[1] \in acked
    /\ (cpc = "recv" /\ upQ # <<>>) => ENABLED CoordReceive
\* The intake is acked and discovery is about to start while no worker exists.
C5_Witness ==
    /\ cpc = "disc" /\ cop = 1 /\ cimg \in acked
    /\ \A w \in Workers : wpc[w] = "init"

\* ------------------------------------------------------------------- C6
\* C6: an (image, op) whose discovery returned nothing (no key, or the read
\* failed) is never dispatched: no Task, no broadcast, no outcome, no variant-map
\* entry, and an op none of whose images was dispatched has its counters at 0;
\* the skipping step moves on to the next operation of the same image.
C6_State ==
    /\ skipped \cap found = {}
    /\ \A p \in skipped :
          /\ p \notin TaskPairs /\ p \notin OutcomePairs
          /\ bend[p] = "none"
          /\ ~Recorded(p)
    /\ \A op \in OpSet : FoundFor(op) = {} => successPerOp[op] = 0 /\ failedPerOp[op] = 0
C6_Step ==
    (cpc = "disc" /\ skipped' # skipped) =>
        IF cop < Len(Ops) THEN cpc' = "disc" /\ cop' = cop + 1 /\ cimg' = cimg
                          ELSE cpc' = "recv"
C6_EmptyDiscoverySkips == [] C6_State /\ [][C6_Step]_vars
\* thumbnail was skipped although a key was registered (the read failed), and
\* the next operation of the same image was dispatched and recorded.
C6_Witness ==
    /\ <<1, "thumbnail">> \in skipped
    /\ <<1, "grayscale">> \in found
    /\ Recorded(<<1, "grayscale">>)
    /\ <<1, "blur">> \in skipped /\ reg # {}

C9_StopOnEveryExit ==
    \A w \in Workers : wpc[w] = "done" => stops[w] = 1

\* ------------------------------------------------------------------ C10
\* C10: a worker that has terminated has issued exactly one Delete of its key, no
\* worker ever issues two, and a terminated worker's key is in the registry only
\* when another instance of the same name has put it and not yet deleted it.
Registering == {"newmb", "collide", "fatal", "idle", "transform", "post", "postWait",
                "stopWait", "delete", "crashed"}
C10_DeleteExactlyOnce ==
    \A w \in Workers :
        /\ dels[w] <= 1
        /\ wpc[w] = "done" =>
              /\ dels[w] = 1
              /\ Key(w) \in reg =>
                    \E v \in Workers \ {w} : Key(v) = Key(w) /\ wpc[v] \in Registering
\* One worker has left by the deferred cleanup and the other by an error branch.
C10_Witness ==
    \E w, v \in Workers :
        /\ wpc[w] = "done" /\ stops[w] = 1 /\ dels[w] = 1
        /\ wpc[v] = "done" /\ stops[v] = 0 /\ dels[v] = 1
        /\ reg = {}

\* ------------------------------------------------------------------ C11
\* C11: when a newcomer that collided on a mailbox name leaves (its Delete and
\* return), an incumbent serving under that name and registered before the step
\* is still serving and still registered after it.
Serving == {"idle", "transform", "post", "postWait"}
C11_Step ==
    \A v \in Workers :
        (wpc[v] = "collide" /\ wpc'[v] = "done") =>
            \A w \in Workers \ {v} :
                (MailboxName(w) = MailboxName(v) /\ wpc[w] \in Serving /\ Key(w) \in reg) =>
                    (wpc'[w] \in Serving /\ Key(w) \in reg')
C11_CollisionSparesIncumbent == [][C11_Step]_vars

\* ------------------------------------------------------------------ C12
\* C12: workers of one operation whose actor names differ hold distinct keys;
\* from its Put until its own Delete the key of such a worker is in the registry
\* whatever the other does, a Put adds its key and removes none, and a
\* successful discovery of the operation returns the mailbox name of each.
Registered == Registering \ {"crashed"}
UniqueName(w) == \A v \in Workers \ {w} : wname[v] # wname[w]
C12_State ==
    \A w \in Workers :
        (wpc[w] \in Registered /\ UniqueName(w)) =>
            /\ Key(w) \in reg
            /\ MailboxName(w) \in Members(FALSE, SupportedOp(w))
            /\ \A v \in Workers \ {w} : wpc[v] \in Registered => Key(v) # Key(w)
C12_Step ==
    /\ \A w \in Workers :
          (wpc[w] = "put" /\ wpc'[w] = "newmb") => (reg \subseteq reg' /\ Key(w) \in reg')
    /\ (cpc = "disc" /\ cpc' = "bcast") =>
          \A w \in Workers :
              (wpc[w] \in Registered /\ UniqueName(w) /\ SupportedOp(w) = Ops[cop]) =>
                  MailboxName(w) \in cpending'
C12_ConcurrentRegistrations == [] C12_State /\ [][C12_Step]_vars
\* Discovery has just returned the two names of two workers that registered
\* before either had opened its mailbox.
C12_Witness ==
    /\ cpc = "bcast"
    /\ cpending = {<<"grayscale", "a">>, <<"grayscale", "b">>}
    /\ \A w \in Workers : wpc[w] = "newmb"

\* ------------------------------------------------------------------ C13
\* C13: register and deregister are idempotent: on every reachable registry and
\* for every key a second Put (Delete) changes nothing after the first, a worker's
\* Put of a key already present and its Delete of a key already absent leave the
\* registry as it is, and discovery of an operation holds one entry per
\* registered instance name, however many instances have put that name.
AllKeys == UNION {{<<SupportedOp(w), n>> : n \in ActorNames(w)} : w \in Workers}
PutNames(op) == {wname[w] : w \in {x \in Workers : SupportedOp(x) = op /\ wpc[x] \in Registering}}
C13_State ==
    /\ \A k \in AllKeys :
          /\ RegPut(RegPut(reg, k), k) = RegPut(reg, k)
          /\ RegDelete(RegDelete(reg, k), k) = RegDelete(reg, k)
          /\ (k \in reg) => RegPut(reg, k) = reg
          /\ (k \notin reg) => RegDelete(reg, k) = reg
    /\ \A op \in OpSet : Cardinality(Members(FALSE, op)) <= Cardinality(PutNames(op))
C13_Step ==
    \A w \in Workers :
        /\ (wpc[w] = "put" /\ wpc'[w] = "newmb" /\ Key(w) \in reg) => reg' = reg
        /\ (wpc[w] \in {"collide", "fatal", "delete"} /\ wpc'[w] \in {"done", "close"}
            /\ Key(w) \notin reg) => reg' = reg
AllStillTransforming ==
    /\ cpc = "bcast" /\ cpending = {} /\ cwait # {}
    /\ \A k \in cwait : \E w \in Owners(k) :
          wpc[w] = "transform" /\ PairOf(wtask[w]) = <<cimg, Ops[cop]>>
C14_FireAndForget ==
    AllStillTransforming => ENABLED CoordBroadcastDone

\* ------------------------------------------------------------------ C15
\* C15: a shutdown signal that is pending when the transform has returned and the
\* outcome is not yet sent does not stop the report: the worker's next step issues
\* the outcome request (and queues the outcome when "transform-updates" accepts
\* it), the worker leaves its loop only from the select, and a worker that has
\* left its loop has issued one report for every Task it took.
Leaving == {"stopWait", "delete", "close", "done"}
C15_State ==
    \A w \in Workers : wpc[w] \in Leaving => posts[w] = handled[w]
C15_Step ==
    \A w \in Workers :
        /\ (wpc[w] = "post" /\ wcancel[w] /\ wpc'[w] \notin {"post", "crashed"}) =>
              /\ posts'[w] = posts[w] + 1
              /\ wpc'[w] \in {"postWait", "idle"}
              /\ (UpdOpen /\ Len(updQ) < UpdatesCap) => updQ' = Append(updQ, Outcome(w))
        /\ (wpc'[w] \in Leaving /\ wpc[w] \notin Leaving) =>
              wpc[w] \in {"idle", "collide", "fatal"}
C15_ShutdownKeepsOutcome == [] C15_State /\ [][C15_Step]_vars
\* The worker's ctx is cancelled and the outcome of its Task is in the
\* Aggregator's mailbox, the worker waiting for the Ack.
C15_Witness ==
    \E w \in Workers :
        /\ wcancel[w] /\ wpc[w] = "postWait" /\ posts[w] = 1
        /\ \E m \in Range(updQ) : m.from = w /\ PairOf(m) = PairOf(wtask[w])

\* ------------------------------------------------------------------ C16
\* C16: a Task of another operation is acknowledged and discarded: the step that
\* takes it leaves the worker at its select with no Task in hand, nothing counted
\* as taken or reported and nothing sent to "transform-updates"; a worker never
\* holds a Task, and never has an outcome under way, of an operation other than its own.
C16_State ==
    \A w \in Workers :
        /\ wtask[w] # NoMsg => wtask[w].op = SupportedOp(w)
        /\ \A m \in OutcomesInFlight : m.from = w => m.op = SupportedOp(w)
C16_Step ==
    \A w \in Workers :
        (/\ wpc[w] = "idle" /\ wq[w] # <<>> /\ wq'[w] = Tail(wq[w])
         /\ wpc'[w] # "crashed"
         /\ Head(wq[w]).op # SupportedOp(w)) =>
            /\ wpc'[w] = "idle" /\ wtask'[w] = NoMsg
            /\ handled'[w] = handled[w] /\ posts'[w] = posts[w]
            /\ updQ' = updQ
C16_MismatchDiscarded == [] C16_State /\ [][C16_Step]_vars
\* Foreign Tasks were delivered and all have been taken from the mailboxes by
\* workers that are still at their select and have handled none of them.
C16_Witness ==
    /\ nforeign >= 1
    /\ \A w \in Workers :
          /\ wq[w] = <<>> /\ handled[w] = 0
          /\ wpc[w] \in {"init", "put", "newmb", "idle"}
    /\ \E w \in Workers : wpc[w] = "idle"

\* ------------------------------------------------------------------ C17
\* C17: a message that does not match the schema of its mailbox changes nothing:
\* in particular an outcome message without its image_id never gets an entry in
\* the variant map (no entry is ever stored under the empty image id).
C17_MalformedDiscarded ==
    \A k \in VariantKeys : k[1] = NoImage => variants[k] = NoLoc

\* ------------------------------------------------------------------ C18
\* C18: a failed transform leaves no entry in the variant map: every (image, op)
\* that has an entry has had a successful outcome processed, so the success
\* counter of op is at least 1 (or the success is in hand, about to be counted).
SuccessSeen(op) ==
    \/ successPerOp[op] >= 1
    \/ (IF upc = "count" THEN ucur.op = op /\ ucur.success ELSE FALSE)
C18_EntryMeansSuccess ==
    \A p \in Pairs : Recorded(p) => SuccessSeen(p[2])

\* ------------------------------------------------------------------ C19
\* C19: the variant map holds one location per (image, op) key; the map changes
\* only when the outcome loop takes a Struct from its mailbox, and that step
\* stores under the message's key the location derived from that message,
\* whatever the key held before, and leaves every other key as it was.
C19_State ==
    /\ DOMAIN variants = VariantKeys
    /\ upc = "count" => variants[PairOf(ucur)] = Location(ucur.img, ucur.path)
C19_Step ==
    /\ variants' # variants => (upc = "recv" /\ upc' = "count")
    /\ (upc = "recv" /\ upc' = "count") =>
          /\ ucur' = Head(updQ)
          /\ variants'[PairOf(ucur')] = Location(ucur'.img, ucur'.path)
          /\ \A k \in VariantKeys \ {PairOf(ucur')} : variants'[k] = variants[k]
C19_LastWriteWins == [] C19_State /\ [][C19_Step]_vars
\* A worker's outcome for (1, grayscale) has been counted, and the outcome now in
\* hand, from another sender and with another path, has replaced its location.
C19_Witness ==
    /\ upc = "count" /\ ucur.from = "foreign" /\ ucur.img = 1
    /\ variants[<<1, "grayscale">>] = <<1, "x">>
    /\ nforeign = 2 /\ \E w \in Workers : handled[w] = 1 /\ posts[w] = 1
    /\ Counted("grayscale") = 1

\* ------------------------------------------------------------------ C20
\* C20: no subscriber's channel ever holds more than its capacity; the step that
\* ends the handling of an outcome or of a lifecycle event offers one snapshot to
\* every connected subscriber, which adds one to a channel with room and leaves
\* a full channel as it is, and acknowledges the message; that step is enabled
\* whatever the subscribers' channels hold.
OfferedTo(c) ==
    IF sub[c] = "on" THEN (IF sbuf[c] < SubCap THEN sbuf[c] + 1 ELSE SubCap) ELSE sbuf[c]
C20_State ==
    /\ \A c \in Subscribers : sbuf[c] >= 0 /\ sbuf[c] <= SubCap
    /\ spc = "bcast" => ENABLED SysAck
    /\ upc = "count" => ENABLED UpdCount
C20_Step ==
    /\ (spc = "bcast" /\ spc' = "recv") =>
          (scur' = NoMsg /\ \A c \in Subscribers : sbuf'[c] = OfferedTo(c))
    /\ (upc = "count" /\ upc' = "recv") =>
          (ucur' = NoMsg /\ \A c \in Subscribers : sbuf'[c] = OfferedTo(c))
C20_NonBlockingBroadcast == [] C20_State /\ [][C20_Step]_vars
\* One subscriber's channel is full and an update for it was dropped, another
\* connected subscriber has room, and the loop is back at its mailbox.
C20_Witness ==
    /\ spc = "recv" /\ scur = NoMsg
    /\ \E c, d \in Subscribers :
          /\ sub[c] = "on" /\ sbuf[c] = SubCap /\ sdrop[c]
          /\ sub[d] = "on" /\ sbuf[d] < SubCap

\* ------------------------------------------------------------------ C23
\* C23: a worker has at most one Task in flight: it holds a Task exactly while it
\* transforms, responds and posts; it takes a message from its mailbox only when
\* it is at its select with no Task in hand, every Task it took reported and its
\* last outcome request returned.
Busy == {"transform", "post", "postWait"}
C23_State ==
    \A w \in Workers :
        /\ (wtask[w] # NoMsg) <=> (wpc[w] \in Busy)
        /\ handled[w] - posts[w] \in {0, 1}
        /\ wpc[w] \notin Busy => (posts[w] = handled[w] /\ UpdAcked(w))
C23_Step ==
    \A w \in Workers :
        (wq[w] # <<>> /\ wq'[w] = Tail(wq[w]) /\ wpc'[w] \notin {"done", "crashed"}) =>
            /\ wpc[w] = "idle" /\ wtask[w] = NoMsg
            /\ posts[w] = handled[w] /\ UpdAcked(w)
C23_OneTaskInFlight == [] C23_State /\ [][C23_Step]_vars
\* The worker waits for the Ack of its outcome while the next matching Task
\* waits in its mailbox.
C23_Witness ==
    \E w \in Workers :
        /\ wpc[w] = "postWait" /\ InQ(updQ, w)
        /\ wq[w] # <<>> /\ Head(wq[w]).op = SupportedOp(w)

\* ------------------------------------------------------------------ C24
\* C24: nothing is retried or redelivered. The Coordinator discovers and
\* broadcasts each (image, op) of an intake at most once: the pair it works on has
\* not been discovered, skipped or broadcast before. A Task enters a worker's
\* mailbox only as a request of the running broadcast, at most once per mailbox,
\* and a worker takes no more matching Tasks than pairs were dispatched for its
\* operation, whether the request, the response or the outcome report failed or
\* the broadcast timed out.
Current == <<cimg, Ops[cop]>>
CurrentTask == [img |-> cimg, op |-> Ops[cop]]
C24_State ==
    /\ cpc = "disc" => (Current \notin found \cup skipped /\ bend[Current] = "none")
    /\ cpc = "bcast" => (Current \in found /\ bend[Current] = "none")
    /\ \A w \in Workers :
          /\ handled[w] <= Cardinality(FoundFor(SupportedOp(w)))
          /\ \A i, j \in 1..Len(wq[w]) : i # j => wq[w][i] # wq[w][j]
          /\ wtask[w] \notin Range(wq[w])
C24_Step ==
    /\ \A p \in Pairs : bend[p] # "none" => bend'[p] = bend[p]
    /\ \A w \in Workers :
          Len(wq'[w]) > Len(wq[w]) =>
              /\ cpc = "bcast" /\ wq'[w] = Append(wq[w], CurrentTask)
              /\ MailboxName(w) \in cpending /\ MailboxName(w) \notin cpending'
              /\ MailboxName(w) \notin cwait
              /\ CurrentTask \notin TasksAt(w)
C24_NoRetry == [] C24_State /\ [][C24_Step]_vars
\* The broadcast of (1, grayscale) ended by its deadline, the worker took the Task
\* afterwards, its response found no waiting request and its outcome report
\* failed: everything is at rest and the pair has no outcome.
C24_Witness ==
    /\ bend[<<1, "grayscale">>] = "timeout"
    /\ cpc = "recv" /\ upQ = <<>> /\ up[1] = "done"
    /\ upc = "start" /\ updQ = <<>> /\ ~Recorded(<<1, "grayscale">>)
    /\ \E w \in Workers :
          wpc[w] = "idle" /\ wq[w] = <<>> /\ handled[w] = 1 /\ posts[w] = 1

\* ------------------------------------------------------------------ C25
\* C25: every worker mailbox name has at most one live owner and only an open
\* mailbox holds messages; a NewMailbox under a name that has a live owner
\* ends in the collision branch, from which the caller only returns; a worker
\* that takes a message is the only owner of its mailbox name.
C25_State ==
    /\ \A k \in AllKeys : Cardinality(Owners(k)) <= 1
    /\ \A w \in Workers : wq[w] # <<>> => MbOpen(w)
C25_Step ==
    \A w \in Workers :
        /\ (wpc[w] = "newmb" /\ Owners(MailboxName(w)) # {} /\ wpc'[w] # "newmb") =>
              wpc'[w] = "collide"
        /\ wpc[w] = "collide" => wpc'[w] \in {"collide", "done"}
        /\ (wq[w] # <<>> /\ wq'[w] = Tail(wq[w])) => Owners(MailboxName(w)) = {w}
C25_SingleOwner == [] C25_State /\ [][C25_Step]_vars
\* A second instance has collided on the name of a worker that is executing a Task.
C25_Witness ==
    \E w, v \in Workers :
        /\ w # v /\ MailboxName(w) = MailboxName(v)
        /\ wpc[v] = "collide" /\ wpc[w] = "transform"

\* ------------------------------------------------------------------ C28
\* C28: a running worker whose key is in the registry (the key is its own: no
\* other instance carries its name) has an open mailbox and is in its receive
\* loop, at startup as at shutdown.
Running(w) == wpc[w] \notin {"init", "done", "crashed"}
C28_DiscoverableMeansServed ==
    \A w \in Workers :
        (Running(w) /\ UniqueName(w) /\ Key(w) \in reg) =>
            (MbOpen(w) /\ wpc[w] \in Serving)

\* ------------------------------------------------------------------ C29
\* C29: the global active-worker counter is the sum of the per-operation
\* active-worker counters and never exceeds the started-worker counter, after
\* any sequence of worker_start and worker_stop events.
RECURSIVE SumOver(_, _)
SumOver(f, S) == IF S = {} THEN 0
                 ELSE LET x == CHOOSE y \in S : TRUE IN f[x] + SumOver(f, S \ {x})
C29_ActiveIsSumOfPerOp ==
    /\ activeWorkers = SumOver(activeWorkersPerOp, OpSet)
    /\ activeWorkers <= startedWorkers

\* ------------------------------------------------------------------ C30
\* C30: a snapshot never shows the variant-map entry of an outcome without its
\* counter: whenever the lifecycle loop or an upload handler is about to take
\* and publish a snapshot, the variant map holds for every operation at most
\* success[op] + failed[op] entries.
Entries(op) == Cardinality({p \in VariantKeys : p[2] = op /\ Recorded(p)})
Publishing ==
    \/ spc = "bcast"
    \/ \E i \in Images : up[i] = "wait" /\ i \in acked
C30_SnapshotAtomic ==
    Publishing => \A op \in OpSet : Entries(op) <= Counted(op)

\* ------------------------------------------------------------------ C22
\* C22: the Aggregator's fields are written only under the exclusive lock, so
\* that no two goroutines of the server ever access one field at the same time
\* with one of them writing and without s.mu keeping them apart.
C22_NoDataRace == ~Race

\* ------------------------------------------------------------------ C26
\* C26: a worker in its loop whose ctx has been cancelled eventually has
\* returned, having issued its worker_stop and the Delete of its key and closed
\* its mailbox; until it is back at its select it stays with the Task it has
\* started, and when it leaves it has reported every Task it took.
C26_Live ==
    \A w \in Workers :
        (wcancel[w] /\ wpc[w] \in Serving) ~>
            (wpc[w] = "done" /\ stops[w] = 1 /\ dels[w] = 1 /\ ~MbOpen(w))
C26_State ==
    \A w \in Workers :
        (wpc[w] \in Leaving /\ stops[w] = 1) => (wtask[w] = NoMsg /\ posts[w] = handled[w])
C26_Step ==
    \A w \in Workers :
        /\ (wcancel[w] /\ wpc[w] \in Busy) => wpc'[w] \in Busy \cup {"idle"}
        /\ (wpc[w] = "idle" /\ wpc'[w] \in Leaving) =>
              (wcancel[w] /\ stops'[w] = stops[w] + 1)
C26_CancelEffective == C26_Live /\ [] C26_State /\ [][C26_Step]_vars
\* A worker that was cancelled during its transform has reported the Task and
\* returned: stop issued, key deleted, mailbox closed.
C26_Witness ==
    \E w \in Workers :
        /\ wpc[w] = "done" /\ stops[w] = 1 /\ dels[w] = 1
        /\ handled[w] = 1 /\ posts[w] = 1
        /\ Recorded(<<1, SupportedOp(w)>>)
        /\ Key(w) \notin reg

\* ------------------------------------------------------------------ C27
\* C27: the handling of one intake message ends: a Coordinator that is
\* discovering or broadcasting is eventually back at its mailbox. Until then
\* every step it takes goes from the discovery of an operation to its broadcast,
\* on to the next operation, or back to the mailbox; a broadcast can always
\* end, by a response, by the failure of its requests or by the deadline,
\* whatever the workers do, and so can a discovery; at its mailbox the
\* Coordinator can take the next intake message.
C27_Live == (cpc \in {"disc", "bcast"}) ~> (cpc = "recv")
C27_State ==
    /\ cpc = "disc" => ENABLED (\E fail \in BOOLEAN : CoordDiscover(fail))
    /\ cpc = "bcast" => ENABLED (CoordBroadcastDone \/ CoordTimeout)
    /\ (cpc = "recv" /\ upQ # <<>>) => ENABLED CoordReceive
C27_Step ==
    (cpc \in {"disc", "bcast"} /\ <<cpc, cop>> # <<cpc', cop'>>) =>
        \/ cpc = "disc" /\ cpc' = "bcast" /\ cop' = cop
        \/ cpc' = "disc" /\ cop' = cop + 1
        \/ cpc' = "recv" /\ cop = Len(Ops)
C27_IntakeTerminates == C27_Live /\ [] C27_State /\ [][C27_Step]_vars
\* The Coordinator is back at its mailbox after a broadcast that no worker
\* answered: the Task is still in the mailbox of a worker that has not taken it.
C27_Witness ==
    /\ cpc = "recv" /\ cimg = NoImage /\ upQ = <<>>
    /\ bend[<<1, "grayscale">>] = "timeout"
    /\ \E w \in Workers : wpc[w] = "idle" /\ handled[w] = 0 /\ wq[w] # <<>>

\* ------------------------------------------------------------------ C21
\* C21 as claimed: a scale request with a known operation and n > 0 that has
\* been answered has issued exactly n start requests, for the operation's actor
\* type and under pairwise distinct names, and reports the number of confirmed
\* starts; any other request has issued none.
Known(b) == ~b.bad /\ b.n > 0 /\ b.op # "" /\ ActorType(b.op) # ""
Distinct(q) == \A i, j \in 1..Len(q) : i # j => q[i] # q[j]
C21_ScaleStartsN ==
    scpc = "done" =>
        IF Known(body)
           THEN /\ Len(issued) = body.n
                /\ \A i \in 1..Len(issued) : issued[i][1] = ActorType(body.op)
                /\ Distinct(issued)
                /\ resp.started = sconf /\ 0 <= resp.started /\ resp.started <= body.n
           ELSE issued = <<>>
\* C21 as amended: the answer is 400 and nothing is issued for an undecodable
\* body, n <= 0, an empty or an unknown operation; it is 500 and nothing is
\* issued when the grid client cannot be created or the peer is not serving;
\* otherwise it is 200 after exactly n start requests for the operation's actor
\* type, each issued after the one before it has returned, with started = the
\* number of confirmed starts, 0 <= started <= n, and with pairwise distinct
\* names unless the clock stepped back between two readings.
C21_State ==
    /\ scpc = "done" =>
          /\ ~Known(body) => (resp.code = 400 /\ issued = <<>>)
          /\ (Known(body) /\ ~(peer.client /\ peer.serving)) =>
                (resp.code = 500 /\ issued = <<>>)
          /\ (Known(body) /\ peer.client /\ peer.serving) =>
                /\ resp.code = 200
                /\ Len(issued) = body.n
                /\ resp.started = sconf /\ 0 <= resp.started /\ resp.started <= body.n
    /\ \A i \in 1..Len(issued) : issued[i][1] = ActorType(body.op)
    /\ ~sback => Distinct(issued)
    /\ scpc = "loop" => Len(issued) = sci
    /\ scpc = "wait" => Len(issued) = sci + 1
C21_Step ==
    Len(issued') > Len(issued) =>
        (scpc = "loop" /\ scpc' = "wait" /\ Len(issued') = Len(issued) + 1 /\ Len(issued) = sci)
C21_ScaleContract == [] C21_State /\ [][C21_Step]_vars
\* A request for three workers has been answered: three requests were issued
\* while the clock stood still, under three names, and two were confirmed.
C21_Witness ==
    /\ scpc = "done" /\ resp = [code |-> 200, started |-> 2]
    /\ body.n = 3 /\ Len(issued) = 3 /\ nowNs = 0 /\ ~sback
    /\ sconf = 2

\* ------------------------------------------------------------------ C31
\* C31: no send ever finds its subscriber channel closed, in every interleaving
\* of disconnects and broadcasts: a channel whose handler has begun to leave is
\* no longer in the subscriber set; a caller of broadcastSnapshot that ranges
\* over the set or is about to send holds the subscriber lock, and the channel
\* it is about to send to is in the set and open; a channel leaves the set only
\* while no broadcast holds the lock, it is closed only after it has left the
\* set and while no broadcast has it in hand, and a channel receives a snapshot
\* only while it is in the set, open, and in the hand of the lock's holder.
C31_State ==
    /\ ~sentClosed
    /\ \A c \in Subscribers : hpc[c] # "none" => sub[c] = "off"
    /\ \A b \in Broadcasters : bpc[b] # "idle" => emu = b
    /\ \A b \in Broadcasters :
          bpc[b] = "send" => (sub[bch[b]] = "on" /\ hpc[bch[b]] = "none")
C31_Step ==
    /\ \A c \in Subscribers :
          (sub[c] = "on" /\ sub'[c] = "off") =>
              (emu = NoHolder /\ emu' = NoHolder /\ hpc'[c] = "deleted")
    /\ \A c \in Subscribers :
          (hpc[c] # "closed" /\ hpc'[c] = "closed") =>
              (hpc[c] = "deleted" /\ sub[c] = "off" /\ \A b \in Broadcasters : bch[b] # c)
    /\ \A c \in Subscribers :
          sbuf'[c] > sbuf[c] =>
              (sub[c] = "on" /\ hpc[c] = "none" /\ \E b \in Broadcasters : emu = b /\ bch[b] = c)
C31_NoSendAfterClose == [] C31_State /\ [][C31_Step]_vars
\* A channel that received a snapshot has been removed and closed while a
\* broadcast that began after the removal holds the lock, has already sent to
\* the other channel and has not released the lock yet.
C31_Witness ==
    \E b \in Broadcasters : \E c, d \in Subscribers :
        /\ c # d
        /\ emu = b /\ bpc[b] = "range" /\ bseen[b] = {d}
        /\ hpc[c] = "closed" /\ sbuf[c] > 0
        /\ sub[d] = "on" /\ sbuf[d] >= 2

====
